---- MODULE Spec2Model ----
(***************************************************************************)
(* State-machine model of cs330_baseline_cifar.py: the evaluator, the      *)
(* trainer with its SGD optimizer and MultiStepLR schedule, the fine-tune  *)
(* path of main, the equivalence probe, raw-dump persistence and the two   *)
(* configuration entry points (prepare_dataloader, create_model).          *)
(*                                                                         *)
(* Conventions.  Real numbers that the code divides are exact rationals    *)
(* <<numerator, denominator>> in lowest terms.  Parameter values,          *)
(* gradients and momentum buffers are fixed-point integers.  The learning  *)
(* rate is an integer number of hundredths of the rate train_model is      *)
(* called with, so the two decays by gamma = 0.1 are exact.  Names of      *)
(* parameters and the fine-tune keyword are sequences of characters, so    *)
(* that str.startswith is a prefix test.  Device moves (.to(device)) do    *)
(* not change values and are not modelled.                                 *)
(***************************************************************************)
EXTENDS Integers, Sequences, FiniteSets, TLC

(***************************************************************************)
(* Bounds of the model.                                                    *)
(***************************************************************************)
MaxN == 3            \* items in an evaluation set
MaxBatch == 3        \* largest evaluation batch size
MaxLoss == 2         \* largest per-item loss
MaxEpochs == 152     \* largest num_epochs of a schedule run
MaxFtEpochs == 2     \* largest num_epochs of a fine-tuning run
MaxTrainItems == 3   \* largest training set of a fine-tuning run
MaxTests == 3        \* largest num_tests of the equivalence probe
MaxOps == 3          \* save/load/train calls of a persistence run

(***************************************************************************)
(* Program constants.                                                      *)
(***************************************************************************)
CIFAR10 == "cifar10"
FASHION_MNIST == "fashion_nist"
Milestone1 == 100
Milestone2 == 150
GammaDen == 10          \* gamma = 0.1 = 1 / GammaDen
MomentumNum == 9        \* momentum = 0.9 = MomentumNum / MomentumDen
MomentumDen == 10
WeightDecayDen == 10000 \* weight_decay = 1e-4 = 1 / WeightDecayDen
LrUnit == 100           \* the rate train_model is called with, in hundredths

None == "None"

(***************************************************************************)
(* Exact rationals.                                                        *)
(***************************************************************************)
RECURSIVE GCD(_, _)
GCD(a, b) == IF b = 0 THEN a ELSE GCD(b, a % b)

Rat(n, d) == LET g == GCD(n, d) IN <<n \div g, d \div g>>

RatAdd(x, y) == Rat(x[1] * y[2] + y[1] * x[2], x[2] * y[2])

RatMulInt(x, k) == Rat(x[1] * k, x[2])

RatDivInt(x, k) == Rat(x[1], x[2] * k)

Min(a, b) == IF a < b THEN a ELSE b

RECURSIVE SumSeq(_)
SumSeq(s) == IF s = <<>> THEN 0 ELSE Head(s) + SumSeq(Tail(s))

(***************************************************************************)
(* evaluate_model                                                          *)
(***************************************************************************)
\* torch.max(outputs, 1): the index of the largest score, the first one on a tie.
ArgMax(scores) ==
    CHOOSE i \in 1..Len(scores) :
        /\ \A j \in 1..Len(scores) : scores[j] <= scores[i]
        /\ \A j \in 1..(i - 1) : scores[j] < scores[i]

\* The items of the batch that starts after `done` items of a sequential loader.
BatchOf(data, done, bs) == SubSeq(data, done + 1, Min(done + bs, Len(data)))

\* criterion(outputs, labels).item(): CrossEntropyLoss with its default mean
\* reduction; 0 when no criterion is given.
BatchLoss(batch, criterion) ==
    IF criterion = None THEN <<0, 1>>
    ELSE Rat(SumSeq([i \in 1..Len(batch) |-> batch[i].loss]), Len(batch))

\* torch.sum(preds == labels.data)
BatchCorrects(batch) ==
    Cardinality({i \in 1..Len(batch) : ArgMax(batch[i].scores) = batch[i].label})

\* The factor of `running_loss += loss * inputs.size(0)`.
LossWeightMut(batch) == 1
LossWeight(batch) == Len(batch)

\* The divisor of `running_loss / len(test_loader.dataset)`.
EvalDivisor(data) == Len(data)


(***************************************************************************)
(* Architectures (resnet18 and VovNet are external constructors): the      *)
(* named parameters of each, and their shapes.                             *)
(***************************************************************************)
RESNET == "resnet"
VOVNET == "vovnet"

ParamNames(a) ==
    IF a = RESNET
    THEN {<<"c", "o">>, <<"f", "c", "w">>, <<"x", "f", "c">>}
    ELSE {<<"b", "s">>, <<"b", "f", "c">>, <<"f", "c">>}

\* The first layer's shape follows input_ch, the classifier's num_classes.
Shape(a, name, num_classes, in_ch) ==
    IF name \in {<<"c", "o">>, <<"b", "s">>} THEN <<in_ch>>
    ELSE IF name \in {<<"f", "c", "w">>, <<"f", "c">>} THEN <<num_classes>>
    ELSE <<8>>

\* A freshly constructed module: training mode, every parameter requires
\* grad, no gradient yet.
NewModel(a, num_classes, in_ch) ==
    [id |-> 1,
     arch |-> a,
     shape |-> [n \in ParamNames(a) |-> Shape(a, n, num_classes, in_ch)],
     value |-> [n \in ParamNames(a) |-> 1]]

\* create_model: the model returned (<<>> when none is), and the exception
\* raised.
CreateModelMut(num_classes, a, in_ch) ==
    IF a = RESNET
    THEN IF in_ch = 3
         THEN [raised |-> None, model |-> <<NewModel(RESNET, num_classes, in_ch)>>]
         ELSE [raised |-> None, model |-> <<NewModel(RESNET, num_classes, in_ch)>>]
    ELSE [raised |-> None, model |-> <<NewModel(VOVNET, num_classes, in_ch)>>]
create_model(num_classes, a, in_ch) ==
    IF a = RESNET
    THEN IF in_ch = 3
         THEN [raised |-> None, model |-> <<NewModel(RESNET, num_classes, in_ch)>>]
         ELSE [raised |-> "AssertionError", model |-> <<>>]
    ELSE [raised |-> None, model |-> <<NewModel(VOVNET, num_classes, in_ch)>>]

(***************************************************************************)
(* prepare_dataloader: the pair <<train_loader, test_loader>> returned      *)
(* (<<>> when nothing is), and the exception raised.                       *)
(* `raise NotImplemented()` calls the NotImplemented constant, which is    *)
(* not callable, so the exception that leaves the function is a TypeError. *)
(***************************************************************************)
Loader(split, ds, bs, sampler) ==
    [dataset |-> <<ds, split>>, batch_size |-> bs, sampler |-> sampler]

PrepareDataloaderMut(train_bs, eval_bs, ds) ==
    IF ds = FASHION_MNIST
    THEN [raised |-> None,
          loaders |-> <<Loader("train", FASHION_MNIST, train_bs, "random"),
                        Loader("test", FASHION_MNIST, eval_bs, "sequential")>>]
    ELSE [raised |-> None,
          loaders |-> <<Loader("train", CIFAR10, train_bs, "random"),
                        Loader("test", CIFAR10, eval_bs, "sequential")>>]
prepare_dataloader(train_bs, eval_bs, ds) ==
    IF ds = CIFAR10
    THEN [raised |-> None,
          loaders |-> <<Loader("train", CIFAR10, train_bs, "random"),
                        Loader("test", CIFAR10, eval_bs, "sequential")>>]
    ELSE IF ds = FASHION_MNIST
    THEN [raised |-> None,
          loaders |-> <<Loader("train", FASHION_MNIST, train_bs, "random"),
                        Loader("test", FASHION_MNIST, eval_bs, "sequential")>>]
    ELSE [raised |-> "TypeError", loaders |-> <<>>]

(***************************************************************************)
(* Persistence: state_dict, torch.save / torch.load, load_state_dict.      *)
(***************************************************************************)
\* os.path.join(model_dir, model_filename) for a relative file name.
JoinPath(dir, name) == <<dir, name>>

\* model.state_dict(): every named tensor with its shape and value.
StateDict(m) == [n \in DOMAIN m.value |-> [shape |-> m.shape[n], value |-> m.value[n]]]

\* save_model: the file system after the dump (os.makedirs creates the
\* directory when it is missing; a directory is present when a file is in it).
SaveModel(files, m, dir, name) ==
    LET path == JoinPath(dir, name)
    IN [p \in DOMAIN files \cup {path} |-> IF p = path THEN StateDict(m) ELSE files[p]]

\* Strict load_state_dict: the keys must be the model's and every shape must
\* match.
Loadable(m, sd) ==
    /\ DOMAIN sd = DOMAIN m.value
    /\ \A n \in DOMAIN sd : sd[n].shape = m.shape[n]

\* load_state_dict copies every tensor whose name and shape match into the
\* model, and raises afterwards if anything did not match.
LoadStateDictMut(m, sd) == m
LoadStateDict(m, sd) ==
    [m EXCEPT !.value =
        [n \in DOMAIN m.value |->
            IF n \in DOMAIN sd /\ sd[n].shape = m.shape[n] THEN sd[n].value ELSE m.value[n]]]

(***************************************************************************)
(* Fine-tuning: the freeze loop of main.                                   *)
(***************************************************************************)
\* name.startswith(keyword)
StartsWith(name, keyword) ==
    /\ Len(keyword) <= Len(name)
    /\ SubSeq(name, 1, Len(keyword)) = keyword

\* requires_grad of every parameter after the loop.
FreezeMut(names, keyword) == [n \in names |-> TRUE]
Freeze(names, keyword) == [n \in names |-> StartsWith(n, keyword)]

(***************************************************************************)
(* optim.SGD with momentum and weight decay, and MultiStepLR.              *)
(***************************************************************************)
\* Fixed-point division, rounding towards zero.
DivT(a, b) == IF a >= 0 THEN a \div b ELSE -((-a) \div b)

\* One parameter's update: d_p = grad + weight_decay * p; the buffer is d_p
\* on the first step and momentum * buf + d_p later; p -= lr * buf.
SgdParam(p, g, buf, rate) ==
    LET d_p == g + DivT(p, WeightDecayDen)
        b == IF buf = <<>> THEN d_p ELSE DivT(MomentumNum * buf[1], MomentumDen) + d_p
    IN [value |-> p - rate * b, buf |-> <<b>>]

\* MultiStepLR.step(): last_epoch has just become `e`; the rate is multiplied
\* by gamma when e is a milestone.
Milestones == {Milestone1, Milestone2}

ScheduledLrMut(rate, e) == IF e \in {Milestone1 - 1, Milestone2} THEN rate \div GammaDen ELSE rate
ScheduledLr(rate, e) == IF e \in Milestones THEN rate \div GammaDen ELSE rate


(***************************************************************************)
(* main: the run configuration and the model file's name.                  *)
(***************************************************************************)
NumClasses == 10
ModelDir == "saved_models"

\* f"resnet18_{dataset_name}.pt" / f"vovnet_slim19_{dataset_name}.pt", as the
\* sequence of the name's parts; the last part is the extension.
ModelFilename(a, ds) ==
    <<IF a = RESNET THEN "resnet18" ELSE "vovnet_slim19", ds, "pt">>

\* f'{model_filename[:dot_pos]}_ft_{keyword}.{model_filename[dot_pos+1:]}'
FinetuneFilename(fname, keyword) ==
    SubSeq(fname, 1, Len(fname) - 1) \o <<"ft", keyword>> \o <<fname[Len(fname)]>>

\* input_ch = 1 if dataset_name == FASHION_MNIST else 3
InputCh(ds) == IF ds = FASHION_MNIST THEN 1 ELSE 3

\* len(train_loader): batches per epoch (drop_last is off).
NumBatches(size, bs) == (size + bs - 1) \div bs

(***************************************************************************)
(* State.                                                                  *)
(***************************************************************************)
VARIABLES
    pc,                    \* position of the running call
    caller,                \* "main", or "call" for a direct call of a function
    ret,                   \* where evaluate_model returns to
    raised,                \* the exception that ended the run, or None
    \* --- run configuration (the locals of main)
    arch, dataset_name, finetune, finetune_layer_keyword, num_epochs,
    train_batch_size, eval_batch_size,
    \* --- data and files
    train_size,            \* len(train_loader.dataset)
    test_set,              \* the evaluation items: model scores, label, loss
    dataGrad,              \* the loss gradient the training data induces
    fs,                    \* saved files: path -> state dict
    loaders,               \* <<train_loader, test_loader>>, <<>> before
    \* --- the model object
    model,                 \* <<the module>>, <<>> before create_model
    mode,                  \* "train" or "eval" (module.training)
    requires_grad, grad,
    pretrained,            \* parameter values right after the fine-tune load
    \* --- train_model
    criterion, lr, last_epoch, momentum_buffer, epoch, tb, returned,
    \* --- evaluate_model
    seen, running_loss, running_corrects, eval_loss, eval_accuracy,
    \* --- history: how often each step has run, and the last log line's epoch
    evalPasses, optSteps, schedSteps, logLines, logged,
    \* --- model_equivalence
    model_1, model_2,      \* the two instances passed in
    stochastic,            \* instances whose forward pass is not repeatable
    num_tests, rtol, atol,
    tests_run, y1, y2, printed, result,
    matches,               \* history: samples whose outputs were close
    \* --- save_model / load_model calls on two models
    m, m2,
    savedAt,               \* path -> the values m had when it was last saved there
    lastOp, ops,
    \* --- a direct call of create_model or prepare_dataloader
    call, outcome

cfgVars == <<caller, arch, dataset_name, finetune, finetune_layer_keyword, num_epochs,
             train_batch_size, eval_batch_size>>
dataVars == <<train_size, test_set, dataGrad>>
gradVars == <<requires_grad, grad, pretrained>>
optVars == <<criterion, lr, last_epoch, momentum_buffer>>
loopVars == <<epoch, tb, returned>>
evalVars == <<seen, running_loss, running_corrects, eval_loss, eval_accuracy>>
histVars == <<evalPasses, optSteps, schedSteps, logLines, logged>>
probeVars == <<model_1, model_2, stochastic, num_tests, rtol, atol,
               tests_run, y1, y2, printed, result, matches>>
persistVars == <<m, m2, savedAt, lastOp, ops>>
callVars == <<call, outcome>>
harness == <<probeVars, persistVars, callVars>>

vars == <<pc, ret, raised, cfgVars, dataVars, fs, loaders, model, mode, gradVars,
          optVars, loopVars, evalVars, histVars, harness>>

(***************************************************************************)
(* evaluate_model(model, test_loader, device, criterion)                   *)
(***************************************************************************)
\* model.eval(); running_loss = 0; running_corrects = 0
EvalEnter ==
    /\ pc = "evaluate_model"
    /\ mode' = "eval"
    /\ seen' = 0
    /\ running_loss' = <<0, 1>>
    /\ running_corrects' = 0
    /\ evalPasses' = evalPasses + 1
    /\ pc' = "eval_loop"
    /\ UNCHANGED <<ret, raised, cfgVars, dataVars, fs, loaders, model, gradVars,
                   optVars, loopVars, eval_loss, eval_accuracy,
                   optSteps, schedSteps, logLines, logged, harness>>

\* One iteration of `for inputs, labels in test_loader`.
EvalBatch ==
    /\ pc = "eval_loop"
    /\ seen < Len(test_set)
    /\ LET batch == BatchOf(test_set, seen, eval_batch_size)
           loss == BatchLoss(batch, criterion)
       IN /\ running_loss' = RatAdd(running_loss, RatMulInt(loss, LossWeight(batch)))
          /\ running_corrects' = running_corrects + BatchCorrects(batch)
          /\ seen' = seen + Len(batch)
    /\ UNCHANGED <<pc, ret, raised, cfgVars, dataVars, fs, loaders, model, mode,
                   gradVars, optVars, loopVars, eval_loss, eval_accuracy, histVars, harness>>

\* The loader is exhausted: divide by len(test_loader.dataset) and return.
EvalReturn ==
    /\ pc = "eval_loop"
    /\ seen = Len(test_set)
    /\ eval_loss' = RatDivInt(running_loss, EvalDivisor(test_set))
    /\ eval_accuracy' = Rat(running_corrects, EvalDivisor(test_set))
    /\ pc' = ret
    /\ UNCHANGED <<ret, raised, cfgVars, dataVars, fs, loaders, model, mode, gradVars,
                   optVars, loopVars, seen, running_loss, running_corrects, histVars,
                   harness>>


(***************************************************************************)
(* main()                                                                  *)
(***************************************************************************)
Raise(e) ==
    /\ raised' = e
    /\ pc' = "raised"

\* Lines 364-415: the configuration asserts, create_model and, when
\* fine-tuning, the load of the pre-trained weights and the freeze loop.
MainStart ==
    /\ pc = "main"
    /\ LET made == create_model(NumClasses, arch, InputCh(dataset_name))
           base == JoinPath(ModelDir, ModelFilename(arch, dataset_name))
           names == DOMAIN made.model[1].value
       IN IF arch \notin {RESNET, VOVNET} \/ dataset_name \notin {FASHION_MNIST, CIFAR10}
          THEN Raise("AssertionError") /\ UNCHANGED <<model, mode, gradVars>>
          ELSE IF made.raised # None
          THEN Raise(made.raised) /\ UNCHANGED <<model, mode, gradVars>>
          ELSE IF ~finetune
          THEN /\ model' = made.model
               /\ mode' = "train"
               /\ requires_grad' = [n \in names |-> TRUE]
               /\ grad' = [n \in names |-> <<>>]
               /\ pc' = "prepare"
               /\ UNCHANGED <<raised, pretrained>>
          ELSE IF base \notin DOMAIN fs
          THEN Raise("FileNotFoundError") /\ UNCHANGED <<model, mode, gradVars>>
          ELSE IF ~Loadable(made.model[1], fs[base])
          THEN /\ Raise("RuntimeError")
               /\ model' = <<LoadStateDict(made.model[1], fs[base])>>
               /\ mode' = "train"
               /\ requires_grad' = [n \in names |-> TRUE]
               /\ grad' = [n \in names |-> <<>>]
               /\ UNCHANGED pretrained
          ELSE /\ model' = <<LoadStateDict(made.model[1], fs[base])>>
               /\ mode' = "train"
               /\ requires_grad' = Freeze(names, finetune_layer_keyword)
               /\ grad' = [n \in names |-> <<>>]
               /\ pretrained' = model'[1].value
               /\ pc' = "prepare"
               /\ UNCHANGED raised
    /\ UNCHANGED <<ret, cfgVars, dataVars, fs, loaders, optVars, loopVars, evalVars,
                   histVars, harness>>

\* Lines 417-420: the loaders.
MainPrepare ==
    /\ pc = "prepare"
    /\ LET got == prepare_dataloader(train_batch_size, eval_batch_size, dataset_name)
       IN IF got.raised # None
          THEN Raise(got.raised) /\ UNCHANGED loaders
          ELSE /\ loaders' = got.loaders
               /\ pc' = "train_model"
               /\ UNCHANGED raised
    /\ UNCHANGED <<ret, cfgVars, dataVars, fs, model, mode, gradVars, optVars,
                   loopVars, evalVars, histVars, harness>>

\* Line 432: save_model under the run's file name.
MainSave ==
    /\ pc = "save"
    /\ LET base == ModelFilename(arch, dataset_name)
           fname == IF finetune THEN FinetuneFilename(base, finetune_layer_keyword)
                    ELSE base
       IN fs' = SaveModel(fs, model[1], ModelDir, fname)
    /\ pc' = "done"
    /\ UNCHANGED <<ret, raised, cfgVars, dataVars, loaders, model, mode, gradVars,
                   optVars, loopVars, evalVars, histVars, harness>>


(***************************************************************************)
(* train_model(model, train_loader, test_loader, device, learning_rate,    *)
(*             num_epochs)                                                 *)
(***************************************************************************)
\* Lines 146-167: criterion, optimizer and scheduler are built (MultiStepLR's
\* constructor leaves last_epoch at 0 and the rate untouched), model.eval(),
\* and the baseline evaluation is called.
TrainEntry ==
    /\ pc = "train_model"
    /\ criterion' = "CrossEntropyLoss"
    /\ lr' = LrUnit
    /\ last_epoch' = 0
    /\ momentum_buffer' = [n \in DOMAIN model[1].value |-> <<>>]
    /\ mode' = "eval"
    /\ pc' = "evaluate_model"
    /\ ret' = "log0"
    /\ UNCHANGED <<raised, cfgVars, dataVars, fs, loaders, model, gradVars, loopVars,
                   evalVars, histVars, harness>>

\* Lines 168-169: the "Epoch: 000" line; the epoch loop starts.
LogBaseline ==
    /\ pc = "log0"
    /\ logLines' = logLines + 1
    /\ logged' = 0
    /\ epoch' = 0
    /\ pc' = "epoch"
    /\ UNCHANGED <<ret, raised, cfgVars, dataVars, fs, loaders, model, mode, gradVars,
                   optVars, tb, returned, evalVars, evalPasses, optSteps, schedSteps,
                   harness>>

\* `for epoch in range(num_epochs)`: is there an epoch left after `done`?
EpochLeftMut(done, n) == done <= n
EpochLeft(done, n) == done < n

\* model.train(): the mode of the module afterwards.
AfterModelTrainMut(md) == md
AfterModelTrain(md) == "train"

\* Lines 171-177: the loop test of the epoch loop, then model.train().
EpochHead ==
    /\ pc = "epoch"
    /\ IF EpochLeft(epoch, num_epochs)
       THEN /\ mode' = AfterModelTrain(mode)
            /\ tb' = 0
            /\ pc' = "batch"
       ELSE /\ pc' = "return"
            /\ UNCHANGED <<mode, tb>>
    /\ UNCHANGED <<ret, raised, cfgVars, dataVars, fs, loaders, model, gradVars,
                   optVars, epoch, returned, evalVars, histVars, harness>>

\* Line 179: `for inputs, labels in train_loader`; after the last batch,
\* lines 202-210: model.eval() and the epoch's evaluation is called.
BatchHead ==
    /\ pc = "batch"
    /\ IF tb < NumBatches(train_size, train_batch_size)
       THEN /\ pc' = "zero_grad"
            /\ UNCHANGED <<mode, ret>>
       ELSE /\ mode' = "eval"
            /\ pc' = "evaluate_model"
            /\ ret' = "sched"
    /\ UNCHANGED <<raised, cfgVars, dataVars, fs, loaders, model, gradVars, optVars,
                   loopVars, evalVars, histVars, harness>>

\* Line 189: optimizer.zero_grad()
ZeroGrad ==
    /\ pc = "zero_grad"
    /\ grad' = [n \in DOMAIN grad |-> <<>>]
    /\ pc' = "forward"
    /\ UNCHANGED <<ret, raised, cfgVars, dataVars, fs, loaders, model, mode,
                   requires_grad, pretrained, optVars, loopVars, evalVars, histVars,
                   harness>>

\* Lines 192-193: outputs = model(inputs)
Forward ==
    /\ pc = "forward"
    /\ pc' = "loss"
    /\ UNCHANGED <<ret, raised, cfgVars, dataVars, fs, loaders, model, mode, gradVars,
                   optVars, loopVars, evalVars, histVars, harness>>

\* Line 194: loss = criterion(outputs, labels)
Loss ==
    /\ pc = "loss"
    /\ pc' = "backward"
    /\ UNCHANGED <<ret, raised, cfgVars, dataVars, fs, loaders, model, mode, gradVars,
                   optVars, loopVars, evalVars, histVars, harness>>

\* Line 195: loss.backward() fills the gradient of every parameter that
\* requires grad; autograd raises when none does.
Backward ==
    /\ pc = "backward"
    /\ IF \A n \in DOMAIN requires_grad : ~requires_grad[n]
       THEN Raise("RuntimeError") /\ UNCHANGED grad
       ELSE /\ grad' = [n \in DOMAIN grad |->
                           IF requires_grad[n] THEN <<dataGrad[n]>> ELSE <<>>]
            /\ pc' = "step"
            /\ UNCHANGED raised
    /\ UNCHANGED <<ret, cfgVars, dataVars, fs, loaders, model, mode, requires_grad,
                   pretrained, optVars, loopVars, evalVars, histVars, harness>>

\* Line 196: optimizer.step() updates every parameter that has a gradient.
OptimizerStep ==
    /\ pc = "step"
    /\ LET upd == [n \in DOMAIN grad |->
                      IF grad[n] = <<>>
                      THEN [value |-> model[1].value[n], buf |-> momentum_buffer[n]]
                      ELSE SgdParam(model[1].value[n], grad[n][1], momentum_buffer[n], lr)]
       IN /\ model' = <<[model[1] EXCEPT !.value = [n \in DOMAIN grad |-> upd[n].value]]>>
          /\ momentum_buffer' = [n \in DOMAIN grad |-> upd[n].buf]
    /\ optSteps' = optSteps + 1
    /\ tb' = tb + 1
    /\ pc' = "batch"
    /\ UNCHANGED <<ret, raised, cfgVars, dataVars, fs, loaders, mode, gradVars,
                   criterion, lr, last_epoch, epoch, returned, evalVars, evalPasses,
                   schedSteps, logLines, logged, harness>>

\* Line 213: scheduler.step()
SchedStep ==
    /\ pc = "sched"
    /\ last_epoch' = last_epoch + 1
    /\ lr' = ScheduledLr(lr, last_epoch + 1)
    /\ schedSteps' = schedSteps + 1
    /\ pc' = "log"
    /\ UNCHANGED <<ret, raised, cfgVars, dataVars, fs, loaders, model, mode, gradVars,
                   criterion, momentum_buffer, loopVars, evalVars, evalPasses,
                   optSteps, logLines, logged, harness>>

\* Lines 215-218: the epoch's log line; the loop goes on to the next epoch.
LogEpoch ==
    /\ pc = "log"
    /\ logLines' = logLines + 1
    /\ logged' = epoch + 1
    /\ epoch' = epoch + 1
    /\ pc' = "epoch"
    /\ UNCHANGED <<ret, raised, cfgVars, dataVars, fs, loaders, model, mode, gradVars,
                   optVars, tb, returned, evalVars, evalPasses, optSteps, schedSteps,
                   harness>>

\* Line 220: return model; main goes on to save it.
ReturnedModel(mod) == mod.id

TrainReturn ==
    /\ pc = "return"
    /\ returned' = <<ReturnedModel(model[1])>>
    /\ pc' = IF caller = "main" THEN "save" ELSE "done"
    /\ UNCHANGED <<ret, raised, cfgVars, dataVars, fs, loaders, model, mode, gradVars,
                   optVars, epoch, tb, evalVars, histVars, harness>>


(***************************************************************************)
(* Initial states.                                                         *)
(***************************************************************************)
\* Variables of the calls a run does not make.
ProbeIdle ==
    /\ model_1 = 0 /\ model_2 = 0 /\ stochastic = {}
    /\ num_tests = 0 /\ rtol = <<0, 1>> /\ atol = 0
    /\ tests_run = 0 /\ y1 = <<>> /\ y2 = <<>> /\ printed = <<>> /\ result = FALSE
    /\ matches = 0

PersistIdle ==
    /\ m = <<>> /\ m2 = <<>> /\ savedAt = <<>> /\ lastOp = <<>> /\ ops = 0

CallIdle ==
    /\ call = <<>> /\ outcome = <<>>

TrainIdle ==
    /\ lr = 0 /\ last_epoch = 0 /\ momentum_buffer = <<>>
    /\ epoch = 0 /\ tb = 0 /\ returned = <<>>
    /\ optSteps = 0 /\ schedSteps = 0 /\ logLines = 0 /\ logged = 0

EvalIdle ==
    /\ seen = 0 /\ running_loss = <<0, 1>> /\ running_corrects = 0
    /\ eval_loss = <<0, 1>> /\ eval_accuracy = <<0, 1>> /\ evalPasses = 0

\* The evaluation items a training run is given.
Item(scores, label, loss) == [scores |-> scores, label |-> label, loss |-> loss]

RunTestSet == <<Item(<<1, 0>>, 1, 1), Item(<<0, 1>>, 1, 2), Item(<<1, 1>>, 2, 1)>>

Grads == {-1, 0, 1}
Keywords == {<<"f", "c">>, <<"b", "s">>, <<"h", "d">>}
Archs == {RESNET, VOVNET, "mobilenet"}
Datasets == {CIFAR10, FASHION_MNIST, "fashion_mnist"}

\* The pre-trained file of a run: missing, dumped from the run's
\* architecture, or dumped from a model with another input channel count.
BaselineFiles(a, ds) ==
    LET path == JoinPath(ModelDir, ModelFilename(a, ds))
        arc == IF a = RESNET THEN RESNET ELSE VOVNET
        dump(in_ch, v) ==
            StateDict([NewModel(arc, NumClasses, in_ch) EXCEPT
                           !.value = [n \in ParamNames(arc) |-> v]])
    IN {<<>>}
       \cup {[p \in {path} |-> dump(InputCh(ds), v)] : v \in {0, WeightDecayDen}}
       \cup {[p \in {path} |-> dump(4 - InputCh(ds), 0)]}

\* main is about to run with one of the given configurations.
InitRun(epochs, archs, datasets, flags, keywords, sizes, grads) ==
    /\ pc = "main" /\ caller = "main" /\ ret = "" /\ raised = None
    /\ arch \in archs
    /\ dataset_name \in datasets
    /\ finetune \in flags
    /\ finetune_layer_keyword \in keywords
    /\ num_epochs \in epochs
    /\ train_batch_size = 2 /\ eval_batch_size = 2
    /\ train_size \in sizes
    /\ test_set = RunTestSet
    /\ dataGrad \in [ParamNames(arch) -> grads]
    /\ fs \in BaselineFiles(arch, dataset_name)
    /\ loaders = <<>> /\ model = <<>> /\ mode = "train"
    /\ requires_grad = <<>> /\ grad = <<>> /\ pretrained = <<>>
    /\ criterion = None
    /\ TrainIdle /\ EvalIdle /\ ProbeIdle /\ PersistIdle /\ CallIdle

Items ==
    {Item(sc, lb, ls) : sc \in {<<0, 1>>, <<1, 1>>}, lb \in 1..2, ls \in 1..MaxLoss}

RECURSIVE SeqsUpTo(_, _)
SeqsUpTo(S, n) ==
    IF n = 0 THEN {<<>>}
    ELSE LET shorter == SeqsUpTo(S, n - 1)
         IN shorter \cup {Append(q, x) : q \in {r \in shorter : Len(r) = n - 1}, x \in S}

\* evaluate_model is called directly on a model in one of the given modes.
EvalCall(testsets, modes) ==
    /\ pc = "evaluate_model" /\ caller = "call" /\ ret = "done" /\ raised = None
    /\ arch = VOVNET /\ dataset_name = CIFAR10
    /\ finetune = FALSE /\ finetune_layer_keyword = <<>>
    /\ num_epochs = 0
    /\ train_batch_size = 2 /\ eval_batch_size \in 1..MaxBatch
    /\ train_size = 2
    /\ test_set \in testsets
    /\ dataGrad = [n \in ParamNames(VOVNET) |-> 0]
    /\ fs = <<>>
    /\ loaders = prepare_dataloader(train_batch_size, eval_batch_size, CIFAR10).loaders
    /\ model = create_model(NumClasses, VOVNET, 3).model
    /\ mode \in modes
    /\ requires_grad = [n \in ParamNames(VOVNET) |-> TRUE]
    /\ grad = [n \in ParamNames(VOVNET) |-> <<>>]
    /\ pretrained = <<>>
    /\ criterion \in {None, "CrossEntropyLoss"}
    /\ TrainIdle /\ EvalIdle /\ ProbeIdle /\ PersistIdle /\ CallIdle

\* train_model is called directly on a model that is in either mode.
InitTrainCall ==
    /\ pc = "train_model" /\ caller = "call" /\ ret = "" /\ raised = None
    /\ arch = VOVNET /\ dataset_name = CIFAR10
    /\ finetune = FALSE /\ finetune_layer_keyword = <<>>
    /\ num_epochs \in 0..MaxFtEpochs
    /\ train_batch_size = 2 /\ eval_batch_size \in 1..MaxBatch
    /\ train_size \in 1..MaxTrainItems
    /\ test_set = RunTestSet
    /\ dataGrad \in [ParamNames(VOVNET) -> {1}]
    /\ fs = <<>>
    /\ loaders = prepare_dataloader(train_batch_size, eval_batch_size, CIFAR10).loaders
    /\ model = create_model(NumClasses, VOVNET, 3).model
    /\ mode \in {"train", "eval"}
    /\ requires_grad = [n \in ParamNames(VOVNET) |-> TRUE]
    /\ grad = [n \in ParamNames(VOVNET) |-> <<>>]
    /\ pretrained = <<>>
    /\ criterion = None
    /\ TrainIdle /\ EvalIdle /\ ProbeIdle /\ PersistIdle /\ CallIdle

\* Long runs of one configuration, short runs of every configuration, and
\* direct calls of train_model and of evaluate_model.
InitMain ==
    \/ InitRun(0..MaxEpochs, {VOVNET}, {CIFAR10}, {FALSE}, {<<"f", "c">>}, {3}, {1})
    \/ InitRun(0..MaxFtEpochs, Archs, Datasets, BOOLEAN, Keywords, 2..MaxTrainItems, Grads)
    \/ InitTrainCall
    \/ EvalCall({RunTestSet}, {"train", "eval"})

NextMain ==
    \/ MainStart \/ MainPrepare \/ TrainEntry
    \/ EvalEnter \/ EvalBatch \/ EvalReturn
    \/ LogBaseline \/ EpochHead \/ BatchHead
    \/ ZeroGrad \/ Forward \/ Loss \/ Backward \/ OptimizerStep
    \/ SchedStep \/ LogEpoch \/ TrainReturn \/ MainSave

SpecMain == InitMain /\ [][NextMain]_vars


(***************************************************************************)
(* Claims about train_model and main (checked under SpecMain).             *)
(***************************************************************************)
InBatch == pc \in {"zero_grad", "forward", "loss", "backward", "step"}

Returned == pc \in {"save", "done"}

BatchesPerEpoch == NumBatches(train_size, train_batch_size)

C8_TrainOrder ==
    (ret \in {"log0", "sched"}) =>
        /\ pc \in {"evaluate_model", "eval_loop", "log0"} /\ ret = "log0"
               => optSteps = 0 /\ schedSteps = 0 /\ logLines = 0
        /\ pc = "log0" => evalPasses = 1
        /\ pc \in {"epoch", "batch"} \cup {"zero_grad", "forward", "loss", "backward", "step"}
               => /\ evalPasses = epoch + 1
                  /\ schedSteps = epoch
                  /\ logLines = epoch + 1
                  /\ logged = epoch
        /\ InBatch => /\ epoch < num_epochs
                      /\ tb < BatchesPerEpoch
                      /\ optSteps = epoch * BatchesPerEpoch + tb
        /\ pc \in {"forward", "loss", "backward"} => \A n \in DOMAIN grad : grad[n] = <<>>
        /\ pc = "step" => \A n \in DOMAIN grad : (grad[n] # <<>>) <=> requires_grad[n]
        /\ pc = "sched" => /\ evalPasses = epoch + 2
                           /\ schedSteps = epoch
                           /\ logLines = epoch + 1
                           /\ optSteps = (epoch + 1) * BatchesPerEpoch
        /\ pc = "log" => /\ evalPasses = epoch + 2
                         /\ schedSteps = epoch + 1
                         /\ logLines = epoch + 1
        /\ pc = "return" \/ Returned
               => /\ evalPasses = num_epochs + 1
                  /\ schedSteps = num_epochs
                  /\ logLines = num_epochs + 1
                  /\ logged = num_epochs
                  /\ optSteps = num_epochs * BatchesPerEpoch
        /\ Returned => returned = <<model[1].id>>

C8_Witness ==
    /\ pc = "done" /\ num_epochs = 2 /\ BatchesPerEpoch = 2
    /\ evalPasses = 3 /\ schedSteps = 2 /\ optSteps = 4

\* C9: the optimizer steps of epoch k (from 1) use the initial rate for
\* k <= 100, a tenth of it for 101 <= k <= 150 and a hundredth for k > 150;
\* the rate is a tenth lower exactly after the schedule steps that end epochs
\* 100 and 150; a run of at most 100 epochs never steps at a decayed rate.
RateOfEpoch(k) ==
    IF k <= 100 THEN LrUnit
    ELSE IF k <= 150 THEN LrUnit \div 10
    ELSE LrUnit \div 100

C9_FixedMilestones ==
    (ret \in {"log0", "sched"}) =>
        /\ last_epoch = schedSteps
        /\ lr = RateOfEpoch(schedSteps + 1)
        /\ InBatch => lr = RateOfEpoch(epoch + 1)
        /\ (InBatch /\ num_epochs <= 100) => lr = LrUnit

C9_Witness ==
    /\ pc = "step" /\ epoch + 1 = 151 /\ lr * 100 = LrUnit

\* C10: every optimizer step is taken in training mode, every evaluation
\* batch is processed in inference mode, and the model is in inference mode
\* whenever evaluate_model has returned and when train_model returns.
C10_ModeInvariant ==
    /\ InBatch => mode = "train"
    /\ pc = "eval_loop" => mode = "eval"
    /\ pc \in {"log0", "sched", "log", "return"} => mode = "eval"
    /\ (Returned /\ raised = None) => mode = "eval"

C10_Witness ==
    /\ caller = "call" /\ pc = "done" /\ num_epochs = 2 /\ optSteps = 4 /\ mode = "eval"


(***************************************************************************)
(* evaluate_model called directly: every evaluation set of up to MaxN      *)
(* items, every batch size, with and without a criterion.                  *)
(***************************************************************************)
InitEval == EvalCall(SeqsUpTo(Items, MaxN) \ {<<>>}, {"train"})

NextEval == EvalEnter \/ EvalBatch \/ EvalReturn

SpecEval == InitEval /\ [][NextEval]_vars

\* What the result must be, from the items alone (no batching).
Hits == {i \in 1..Len(test_set) : ArgMax(test_set[i].scores) = test_set[i].label}

TotalLoss ==
    IF criterion = None THEN 0
    ELSE SumSeq([i \in 1..Len(test_set) |-> test_set[i].loss])

\* C1: whatever the batch size, the accuracy evaluate_model returns is the
\* number of items predicted right over the number of items N, and the loss
\* is the sum of the batch losses weighted by batch size over N, which is
\* the sum of the item losses over N.
C1_NormalizedByDatasetSize ==
    (pc = "done") =>
        /\ eval_accuracy[1] * Len(test_set) = Cardinality(Hits) * eval_accuracy[2]
        /\ eval_loss[1] * Len(test_set) = TotalLoss * eval_loss[2]

\* Three items in batches of two (a partial last batch), unequal losses.
C1_Witness ==
    /\ pc = "done" /\ Len(test_set) = 3 /\ eval_batch_size = 2
    /\ criterion # None
    /\ test_set[1].loss # test_set[2].loss
    /\ Cardinality(Hits) = 2
    /\ eval_accuracy = <<2, 3>>


(***************************************************************************)
(* model_equivalence(model_1, model_2, device, rtol, atol, num_tests)      *)
(*                                                                         *)
(* An output is a vector of two elements; an element is <<v>> for the      *)
(* number v, in units of 1e-8, or <<>> for NaN.  A forward pass is an      *)
(* unknown function of the input x, which is drawn afresh for every        *)
(* sample: the two passes of one sample agree when both models are the     *)
(* same instance and its forward pass is repeatable; otherwise each may    *)
(* give any output.                                                        *)
(***************************************************************************)
Abs(x) == IF x < 0 THEN -x ELSE x

OutVals == {<<0>>, <<1>>, <<3>>, <<>>}
Outputs == {<<a, b>> : a \in OutVals, b \in OutVals}

HasNaN(y) == \E i \in DOMAIN y : y[i] = <<>>

\* numpy.isclose with equal_nan=False: |a - b| <= atol + rtol * |b|, never
\* for a NaN.  rt is the rational <<numerator, denominator>>.
IsCloseMut(a, b, rt, at) ==
    /\ a # <<>> /\ b # <<>>
    /\ Abs(a[1] - b[1]) * rt[2] < at * rt[2] + rt[1] * Abs(b[1])
IsClose(a, b, rt, at) ==
    /\ a # <<>> /\ b # <<>>
    /\ Abs(a[1] - b[1]) * rt[2] <= at * rt[2] + rt[1] * Abs(b[1])

\* numpy.allclose
AllClose(a, b, rt, at) == \A i \in DOMAIN a : IsClose(a[i], b[i], rt, at)

\* The defaults rtol=1e-05, atol=1e-08, and an exact comparison.
Tolerances == {[rtol |-> <<1, 100000>>, atol |-> 1], [rtol |-> <<0, 1>>, atol |-> 0]}

\* Both models run on one fresh sample; the result of the sample.
SampleMut(o1, o2) ==
    /\ y1' = o1
    /\ y2' = o2
    /\ tests_run' = tests_run + 1
    /\ IF ~AllClose(o1, o2, rtol, atol)
       THEN /\ printed' = <<o1, o2>>
            /\ UNCHANGED <<result, pc, matches>>
       ELSE /\ matches' = matches + 1
            /\ UNCHANGED <<printed, result, pc>>
Sample(o1, o2) ==
    /\ y1' = o1
    /\ y2' = o2
    /\ tests_run' = tests_run + 1
    /\ IF ~AllClose(o1, o2, rtol, atol)
       THEN /\ printed' = <<o1, o2>>
            /\ result' = FALSE
            /\ pc' = "done"
            /\ UNCHANGED matches
       ELSE /\ matches' = matches + 1
            /\ UNCHANGED <<printed, result, pc>>

\* Lines 349-358: one iteration of `for _ in range(num_tests)`.
EquivSample ==
    /\ pc = "model_equivalence"
    /\ tests_run < num_tests
    /\ \E o1 \in Outputs, o2 \in Outputs :
           /\ (model_1 = model_2 /\ model_1 \notin stochastic) => o2 = o1
           /\ Sample(o1, o2)
    /\ UNCHANGED <<ret, raised, cfgVars, dataVars, fs, loaders, model, mode, gradVars,
                   optVars, loopVars, evalVars, histVars, model_1, model_2, stochastic,
                   num_tests, rtol, atol, persistVars, callVars>>

\* Line 360: the loop ran out: return True.
EquivReturnTrue ==
    /\ pc = "model_equivalence"
    /\ tests_run = num_tests
    /\ result' = TRUE
    /\ pc' = "done"
    /\ UNCHANGED <<ret, raised, cfgVars, dataVars, fs, loaders, model, mode, gradVars,
                   optVars, loopVars, evalVars, histVars, model_1, model_2, stochastic,
                   num_tests, rtol, atol, tests_run, y1, y2, printed, matches,
                   persistVars, callVars>>

\* Variables of main, train_model and evaluate_model when none of them runs.
MainIdle ==
    /\ caller = "call" /\ ret = "" /\ raised = None
    /\ arch = VOVNET /\ dataset_name = CIFAR10
    /\ finetune = FALSE /\ finetune_layer_keyword = <<>>
    /\ num_epochs = 0 /\ train_batch_size = 2 /\ eval_batch_size = 2
    /\ train_size = 2 /\ test_set = RunTestSet
    /\ dataGrad = [n \in ParamNames(VOVNET) |-> 0]
    /\ loaders = <<>> /\ model = <<>> /\ mode = "train"
    /\ requires_grad = <<>> /\ grad = <<>> /\ pretrained = <<>>
    /\ criterion = None
    /\ TrainIdle /\ EvalIdle

InitEquiv ==
    /\ pc = "model_equivalence"
    /\ MainIdle /\ fs = <<>> /\ PersistIdle /\ CallIdle
    /\ model_1 \in 1..2 /\ model_2 \in 1..2
    /\ stochastic \in SUBSET (1..2)
    /\ num_tests \in 0..MaxTests
    /\ \E t \in Tolerances : rtol = t.rtol /\ atol = t.atol
    /\ tests_run = 0 /\ y1 = <<>> /\ y2 = <<>> /\ printed = <<>> /\ result = FALSE
    /\ matches = 0

NextEquiv == EquivSample \/ EquivReturnTrue

SpecEquiv == InitEquiv /\ [][NextEquiv]_vars

\* C3: model_equivalence returns false at the first sample whose outputs are
\* not close, having printed both outputs and run no later sample, and
\* returns true only when all num_tests samples were run and all matched.
C3_AllOrNothing ==
    /\ pc = "model_equivalence" => /\ matches = tests_run
                                   /\ printed = <<>>
    /\ (pc = "done" /\ ~result) => /\ tests_run \in 1..num_tests
                                   /\ matches = tests_run - 1
                                   /\ ~AllClose(y1, y2, rtol, atol)
                                   /\ printed = <<y1, y2>>
    /\ (pc = "done" /\ result) => /\ tests_run = num_tests
                                  /\ matches = num_tests
                                  /\ printed = <<>>

C3_Witness ==
    /\ pc = "done" /\ ~result /\ model_1 # model_2
    /\ num_tests = 3 /\ tests_run = 2 /\ matches = 1

\* C4 (as stated): with the same instance as both arguments the result is
\* true, whatever the outputs and the mode.
C4_AsStated ==
    (pc = "done" /\ model_1 = model_2 /\ num_tests >= 1) => result

\* C4 (amended): with the same instance as both arguments and a repeatable
\* forward pass, the result is true unless a sampled output contains a NaN
\* (equal_nan=False makes a NaN differ from itself), in which case it is
\* false at that sample.
C4_SameInstance ==
    (pc = "done" /\ model_1 = model_2 /\ model_1 \notin stochastic) =>
        /\ y1 = y2
        /\ result <=> ~HasNaN(y1)

C4_Witness ==
    /\ pc = "done" /\ model_1 = model_2 /\ model_1 \notin stochastic
    /\ num_tests = 3 /\ tests_run = 3 /\ result
    /\ rtol = <<0, 1>> /\ atol = 0


(***************************************************************************)
(* save_model(m, dir, name) and load_model(m2, path, device) on two models *)
(* m and m2, with training steps on m in between.                          *)
(***************************************************************************)
Dirs == {ModelDir, "tmp"}
FileName == <<"model", "pt">>
Paths == {JoinPath(d, FileName) : d \in Dirs}

\* save_model(m, d, FileName)
PersistSave ==
    /\ pc = "persist"
    /\ ops < MaxOps
    /\ \E d \in Dirs :
           /\ fs' = SaveModel(fs, m[1], d, FileName)
           /\ savedAt' = [p \in DOMAIN savedAt \cup {<<d, FileName>>} |->
                             IF p = <<d, FileName>> THEN m[1].value ELSE savedAt[p]]
           /\ lastOp' = <<"save", <<d, FileName>>>>
    /\ ops' = ops + 1
    /\ UNCHANGED <<pc, ret, raised, cfgVars, dataVars, loaders, model, mode, gradVars,
                   optVars, loopVars, evalVars, histVars, probeVars, m, m2, callVars>>

\* Training moves every parameter of m.
PersistTrain ==
    /\ pc = "persist"
    /\ ops < MaxOps
    /\ \E v \in {0, 2} :
           /\ \E n \in DOMAIN m[1].value : m[1].value[n] # v
           /\ m' = <<[m[1] EXCEPT !.value = [n \in DOMAIN m[1].value |-> v]]>>
    /\ lastOp' = <<"train", <<>>>>
    /\ ops' = ops + 1
    /\ UNCHANGED <<pc, ret, raised, cfgVars, dataVars, fs, loaders, model, mode,
                   gradVars, optVars, loopVars, evalVars, histVars, probeVars, m2,
                   savedAt, callVars>>

\* load_model(m2, path, device): torch.load raises when the file is missing,
\* load_state_dict when the dump does not fit m2.
PersistLoad ==
    /\ pc = "persist"
    /\ ops < MaxOps
    /\ \E p \in Paths :
           IF p \notin DOMAIN fs
           THEN /\ Raise("FileNotFoundError")
                /\ lastOp' = <<"load failed", p>>
                /\ UNCHANGED m2
           ELSE /\ m2' = <<LoadStateDict(m2[1], fs[p])>>
                /\ IF Loadable(m2[1], fs[p])
                   THEN /\ lastOp' = <<"load", p>>
                        /\ UNCHANGED <<pc, raised>>
                   ELSE /\ Raise("RuntimeError")
                        /\ lastOp' = <<"load failed", p>>
    /\ ops' = ops + 1
    /\ UNCHANGED <<ret, cfgVars, dataVars, fs, loaders, model, mode, gradVars,
                   optVars, loopVars, evalVars, histVars, probeVars, m, savedAt,
                   callVars>>

InitPersist ==
    /\ pc = "persist"
    /\ MainIdle /\ ProbeIdle /\ CallIdle
    /\ fs = <<>> /\ savedAt = <<>> /\ lastOp = <<>> /\ ops = 0
    /\ \E a \in {RESNET, VOVNET} : m = create_model(NumClasses, a, 3).model
    /\ \E a \in {RESNET, VOVNET}, in_ch \in {1, 3} :
           m2 = <<[NewModel(a, NumClasses, in_ch) EXCEPT
                       !.id = 2, !.value = [n \in ParamNames(a) |-> 5]]>>

NextPersist == PersistSave \/ PersistTrain \/ PersistLoad

SpecPersist == InitPersist /\ [][NextPersist]_vars

\* C5: right after a load that succeeded, m2 holds exactly the values m had
\* when it was saved to that path, whatever m2 held before and whatever m
\* has become since; right after a save, m holds what it held before and
\* the file holds m's state.
C5_RoundTrip ==
    /\ (lastOp # <<>> /\ lastOp[1] = "load")
           => /\ m2[1].value = savedAt[lastOp[2]]
              /\ m2[1].arch = m[1].arch
    /\ (lastOp # <<>> /\ lastOp[1] = "save")
           => /\ m[1].value = savedAt[lastOp[2]]
              /\ \A n \in DOMAIN m[1].value : fs[lastOp[2]][n].value = m[1].value[n]

\* Saved, trained on, then loaded: m2 has the saved values, not m's current.
C5_Witness ==
    /\ lastOp # <<>> /\ lastOp[1] = "load" /\ ops = 3
    /\ m2[1].value # m[1].value
    /\ \A n \in DOMAIN m2[1].value : m2[1].value[n] = 1

(***************************************************************************)
(* Direct calls of create_model and prepare_dataloader, next to main.      *)
(***************************************************************************)
Call(fn, a, in_ch, num_classes, ds, train_bs, eval_bs) ==
    [fn |-> fn, arch |-> a, input_ch |-> in_ch, num_classes |-> num_classes,
     dataset |-> ds, train_batch_size |-> train_bs, eval_batch_size |-> eval_bs]

ArchTags == {RESNET, VOVNET, "mobilenet", "resnet18"}
DatasetIds == {CIFAR10, FASHION_MNIST, "fashion_mnist", "mnist", None}

\* create_model(num_classes, arch, input_ch)
CallCreateModel ==
    /\ pc = "call"
    /\ call.fn = "create_model"
    /\ LET got == create_model(call.num_classes, call.arch, call.input_ch)
       IN /\ outcome' = <<[raised |-> got.raised, model |-> got.model, loaders |-> <<>>]>>
          /\ raised' = got.raised
          /\ pc' = IF got.raised = None THEN "done" ELSE "raised"
    /\ UNCHANGED <<ret, cfgVars, dataVars, fs, loaders, model, mode, gradVars, optVars,
                   loopVars, evalVars, histVars, probeVars, persistVars, call>>

\* prepare_dataloader(train_batch_size=.., eval_batch_size=.., dataset=..)
CallPrepareDataloader ==
    /\ pc = "call"
    /\ call.fn = "prepare_dataloader"
    /\ LET got == prepare_dataloader(call.train_batch_size, call.eval_batch_size,
                                     call.dataset)
       IN /\ outcome' = <<[raised |-> got.raised, model |-> <<>>, loaders |-> got.loaders]>>
          /\ raised' = got.raised
          /\ pc' = IF got.raised = None THEN "done" ELSE "raised"
    /\ UNCHANGED <<ret, cfgVars, dataVars, fs, loaders, model, mode, gradVars, optVars,
                   loopVars, evalVars, histVars, probeVars, persistVars, call>>

InitCall ==
    /\ pc = "call"
    /\ MainIdle /\ ProbeIdle /\ PersistIdle
    /\ fs = <<>> /\ outcome = <<>>
    /\ call \in {Call("create_model", a, c, k, None, 0, 0) :
                     a \in ArchTags, c \in {1, 3}, k \in {NumClasses, 100}}
                \cup {Call("prepare_dataloader", None, 0, 0, d, tb_, eb_) :
                          d \in DatasetIds, tb_ \in 1..MaxBatch, eb_ \in 1..MaxBatch}

InitConfig ==
    \/ InitCall
    \/ InitRun(0..1, Archs, Datasets, BOOLEAN, {<<"f", "c">>}, {2}, {1})

NextConfig == CallCreateModel \/ CallPrepareDataloader \/ NextMain

SpecConfig == InitConfig /\ [][NextConfig]_vars

Called(fn) == call # <<>> /\ call.fn = fn /\ pc # "call"

\* C6: prepare_dataloader raises and returns no loaders for every dataset
\* identifier other than CIFAR10 and FASHION_MNIST (None included), and for
\* these two it returns the loaders of the dataset asked for.
C6_UnknownDatasetRaises ==
    /\ Called("prepare_dataloader") =>
           IF call.dataset \in {CIFAR10, FASHION_MNIST}
           THEN /\ outcome[1].raised = None
                /\ Len(outcome[1].loaders) = 2
                /\ \A i \in 1..2 : outcome[1].loaders[i].dataset[1] = call.dataset
           ELSE /\ outcome[1].raised # None
                /\ outcome[1].loaders = <<>>
                /\ pc = "raised"
    /\ (caller = "main" /\ dataset_name \notin {CIFAR10, FASHION_MNIST}) => loaders = <<>>

C6_Witness ==
    /\ Called("prepare_dataloader") /\ call.dataset = "fashion_mnist"
    /\ pc = "raised" /\ outcome[1].loaders = <<>>

\* C7 (as stated): create_model raises and returns no model for an
\* architecture tag that is not one of the two supported ones, and for
\* 'resnet' with input_ch other than 3.
C7_AsStated ==
    (Called("create_model")
         /\ (call.arch \notin {RESNET, VOVNET} \/ (call.arch = RESNET /\ call.input_ch # 3)))
        => (outcome[1].raised # None /\ outcome[1].model = <<>>)

\* C7 (amended): create_model raises AssertionError and returns no model
\* exactly for 'resnet' with input_ch other than 3; for every other tag,
\* supported or not, it returns a VovNet.  The unsupported tag is rejected
\* by main: its assert fails before any model is created.
C7_FailFast ==
    /\ Called("create_model") =>
           IF call.arch = RESNET /\ call.input_ch # 3
           THEN outcome[1].raised = "AssertionError" /\ outcome[1].model = <<>>
           ELSE /\ outcome[1].raised = None
                /\ outcome[1].model # <<>>
                /\ outcome[1].model[1].arch = IF call.arch = RESNET THEN RESNET ELSE VOVNET
    /\ (caller = "main" /\ pc # "main"
            /\ (arch \notin {RESNET, VOVNET} \/ (arch = RESNET /\ InputCh(dataset_name) # 3)))
           => (pc = "raised" /\ raised = "AssertionError" /\ model = <<>>)

C7_Witness ==
    /\ Called("create_model") /\ call.arch = RESNET /\ call.input_ch = 1
    /\ pc = "raised" /\ outcome[1].model = <<>>

====
